---------------------------- MODULE Spec2Model ----------------------------
(***************************************************************************)
(* Model of the adapter discovery engine, AdapterFactory, of               *)
(* pc-ble-driver-js (src/unnamed/part_000).                                *)
(*                                                                         *)
(* JavaScript strings are sequences of one-character strings.  The value   *)
(* undefined is the marker Undefined.  Objects with identity (Adapter       *)
(* instances) carry a reference number, ref.                                *)
(*                                                                         *)
(* The engine runs on Node's event loop: every timer tick, every call of   *)
(* the public interface and every callback of the driver is one task that  *)
(* runs to its end, and one action here.  A consumer listens to the        *)
(* engine's "error" event, so that emitting it does not throw.  An error   *)
(* thrown inside a task ends that task; the process goes on (a process     *)
(* that dies instead takes no further step).                               *)
(***************************************************************************)
EXTENDS Integers, Sequences, FiniteSets, Bags, TLC

\* Longest list of descriptors one enumeration returns.
MaxLen == 2
\* Most enumerations in flight at once.
MaxInflight == 2
\* Most Adapter objects ever stored in the mapping during one run.
MaxHandles == 2
\* Most listeners a consumer puts on one notification of one Adapter.
MaxUserListeners == 1

---------------------------------------------------------------------------
(* JavaScript values *)

Undefined == <<"undefined">>

Digits == {"0", "1", "2", "3", "4", "5", "6", "7", "8", "9"}

\* String(v): what RegExp.prototype.test and a property access make of v.
JsString(v) ==
    IF v = Undefined THEN <<"u", "n", "d", "e", "f", "i", "n", "e", "d">> ELSE v

\* if (v): undefined and the empty string are falsy.
Truthy(v) == v # Undefined /\ v # << >>

\* parseInt(c, 10) of a one-digit string.
ParseInt(c) ==
    CASE c = "0" -> 0 [] c = "1" -> 1 [] c = "2" -> 2 [] c = "3" -> 3
      [] c = "4" -> 4 [] c = "5" -> 5 [] c = "6" -> 6 [] c = "7" -> 7
      [] c = "8" -> 8 [] c = "9" -> 9

---------------------------------------------------------------------------
(* seggerSerialNumber = /^.*68([0-3]{1})[0-9]{6}$/ *)

NoMatch == << >>

\* The part of the pattern after ".*", tried with ".*" having taken the first
\* k characters of s: "68", one of 0-3 (captured), six digits, end of input.
MatchAfterPrefix(s, k) ==
    /\ Len(s) = k + 9
    /\ s[k + 1] = "6"
    /\ s[k + 2] = "8"
    /\ s[k + 3] \in {"0", "1", "2", "3"}
    /\ \A j \in 4..9 : s[k + j] \in Digits

\* ".*" takes any characters but line terminators (here "\n" and "\r").
DotStar(s, k) == \A j \in 1..k : s[j] \notin {"\n", "\r"}

\* seggerSerialNumber.exec(v): <<whole match, group 1>>, or NoMatch (null).
\* ".*" is greedy: the longest prefix the rest can follow wins.
seggerSerialNumber_exec(v) ==
    LET s  == JsString(v)
        ks == {k \in 0..Len(s) : DotStar(s, k) /\ MatchAfterPrefix(s, k)}
    IN  IF ks = {} THEN NoMatch
        ELSE LET k == CHOOSE x \in ks : \A y \in ks : y <= x
             IN  <<s, s[k + 3]>>

seggerSerialNumber_test(v) == seggerSerialNumber_exec(v) # NoMatch

---------------------------------------------------------------------------
(* Raw device descriptors, as the driver's getAdapters reports them *)

Str9(a, b, c) == <<"6", "8", a, b, "0", "0", "0", "0", c>>

\* Serial numbers and port names the enumerated devices carry.
SerialA == Str9("0", "1", "1")
SerialB == Str9("2", "0", "2")
SerialX == Str9("4", "1", "3")
Com3    == <<"C", "O", "M", "3">>

Descriptor(serial, com) == [serialNumber |-> serial, comName |-> com]

dA == Descriptor(SerialA, Undefined)    \* development kit 0
dB == Descriptor(SerialB, Com3)         \* development kit 2
dX == Descriptor(SerialX, Com3)         \* digit 4 after "68"
dN == Descriptor(Undefined, Undefined)  \* neither serial number nor port name

\* The devices the enumerations of Spec report.
Descriptors == {dA, dB, dX, dN}

RECURSIVE ListsUpTo(_, _)
ListsUpTo(S, n) ==
    IF n = 0 THEN {<< >>}
    ELSE LET shorter == ListsUpTo(S, n - 1)
         IN  shorter \cup {Append(l, d) : l \in shorter, d \in S}

\* What the driver hands to the callback of getAdapters: (err, adapters).
NoError     == ""
DriverError == "EnumerationFailure"

Results ==
    {[err |-> NoError, adapters |-> l] : l \in ListsUpTo(Descriptors, MaxLen)}
        \cup {[err |-> DriverError, adapters |-> << >>]}

---------------------------------------------------------------------------
(* Adapter objects and events *)

\* new Adapter(selectedDriver, addOnAdapter, instanceId, comName, serialNumber,
\* notSupportedMessage).  ref is the object's identity.  The advisory string,
\* which the engine never reads, is left out.
Adapter(ref, sdVersion, instanceId, comName, serialNumber) ==
    [ref |-> ref, driver |-> sdVersion, instanceId |-> instanceId,
     comName |-> comName, serialNumber |-> serialNumber]

NoHandle == Adapter(0, "", Undefined, Undefined, Undefined)

\* this.emit(type, ...): an event on the engine's public stream.  keyed,
\* held and wired record what was true of the handle when the event was
\* emitted: the mapping has a key for the handle's instance id, the mapping
\* has the handle itself under that key, and the engine's two listeners are
\* on the handle.
Event(type, handle, error, keyed, held, wired) ==
    [type |-> type, handle |-> handle, error |-> error,
     keyed |-> keyed, held |-> held, wired |-> wired]

ErrorEvent(error) == Event("error", NoHandle, error, FALSE, FALSE, FALSE)

NoThrow == ""

---------------------------------------------------------------------------
(* The mapping this._adapters, a JavaScript object *)

\* A property name that is an array index: a canonical decimal numeral below
\* 2^32 - 1.  for-in visits these first, in ascending numeric order.
MaxIndex == <<"4", "2", "9", "4", "9", "6", "7", "2", "9", "4">>

RECURSIVE LexLess(_, _, _)
LexLess(s, t, i) ==
    IF i > Len(s) THEN FALSE
    ELSE IF s[i] # t[i] THEN ParseInt(s[i]) < ParseInt(t[i])
    ELSE LexLess(s, t, i + 1)

\* s < t for canonical numerals s and t.
NumLess(s, t) ==
    Len(s) < Len(t) \/ (Len(s) = Len(t) /\ LexLess(s, t, 1))

IsArrayIndex(s) ==
    /\ Len(s) >= 1
    /\ \A j \in 1..Len(s) : s[j] \in Digits
    /\ Len(s) = 1 \/ s[1] # "0"
    /\ s = MaxIndex \/ NumLess(s, MaxIndex)

\* Whether for-in visits key a before key b, for an object whose values are
\* Adapter objects: array indices ascending, then the other names in the order
\* of their creation, which is the order of the refs of their values.
VisitedBefore(obj, a, b) ==
    IF IsArrayIndex(a) /\ IsArrayIndex(b) THEN NumLess(a, b)
    ELSE IF IsArrayIndex(a) # IsArrayIndex(b) THEN IsArrayIndex(a)
    ELSE obj[a].ref < obj[b].ref

RECURSIVE ForInOrder(_, _)
ForInOrder(obj, keys) ==
    IF keys = {} THEN << >>
    ELSE LET first == CHOOSE a \in keys :
                          \A b \in keys \ {a} : VisitedBefore(obj, a, b)
         IN  <<first>> \o ForInOrder(obj, keys \ {first})

EmptyObject == [k \in {} |-> NoHandle]

\* obj[key] = value
SetProperty(obj, key, value) ==
    [k \in DOMAIN obj \cup {key} |-> IF k = key THEN value ELSE obj[k]]

\* delete obj[key] left out: the property stays.
DeleteProperty_kept(obj, key) == obj

\* delete obj[key]
DeleteProperty(obj, key) == [k \in DOMAIN obj \ {key} |-> obj[k]]

\* The name under which obj[v] looks.
PropertyKey(v) == JsString(v)

---------------------------------------------------------------------------
(* Listeners on the Adapter objects *)

NoListeners == [opened |-> << >>, closed |-> << >>]

\* The identity of the next object that is kept.  An Adapter that is created
\* and dropped at once leaves no trace, and its identity is free again.
NextRef(ls) == Cardinality(DOMAIN ls) + 1

\* adapter.on(event, listener)
On(ls, adapter, event, listener) ==
    LET old == IF adapter \in DOMAIN ls THEN ls[adapter] ELSE NoListeners
    IN  [a \in DOMAIN ls \cup {adapter} |->
            IF a = adapter THEN [old EXCEPT ![event] = Append(@, listener)]
            ELSE ls[a]]

\* adapter.removeAllListeners(event)
removeAllListeners(ls, adapter, event) ==
    [ls EXCEPT ![adapter] = [@ EXCEPT ![event] = << >>]]

\* _setUpListenersForAdapterOpenAndClose(adapter)
_setUpListenersForAdapterOpenAndClose(ls, adapter) ==
    On(On(ls, adapter, "opened", "engine"), adapter, "closed", "engine")

Has(seq, x) == \E j \in 1..Len(seq) : seq[j] = x

Wired(ls, adapter) ==
    /\ adapter \in DOMAIN ls
    /\ Has(ls[adapter].opened, "engine")
    /\ Has(ls[adapter].closed, "engine")

Keyed(obj, adapter) == PropertyKey(adapter.instanceId) \in DOMAIN obj

Held(obj, adapter) ==
    /\ Keyed(obj, adapter)
    /\ obj[PropertyKey(adapter.instanceId)] = adapter

---------------------------------------------------------------------------
(* _getInstanceId and _parseAndCreateAdapter *)

MissingInstanceId    == "Failed to get adapter instanceId"
UnsupportedHardware  == "Unsupported nRF5 development kit."
UnknownAdapterVendor == "Not able to determine version of pc-ble-driver to use."

\* _getInstanceId(adapter): the value returned and the events emitted.
_getInstanceId(adapter) ==
    IF Truthy(adapter.serialNumber)
    THEN [ret |-> adapter.serialNumber, emitted |-> << >>]
    ELSE IF Truthy(adapter.comName)
    THEN [ret |-> adapter.comName, emitted |-> << >>]
    ELSE [ret |-> Undefined, emitted |-> <<ErrorEvent(MissingInstanceId)>>]

\* The switch with case 2 falling into the group of cases 0 and 1.
sdVersionOf_wrongKit(developmentKit) ==
    CASE developmentKit \in {0, 1, 2} -> "v2"
      [] developmentKit = 3 -> "v3"
      [] OTHER -> ""

\* The switch on developmentKit: the driver tag, or "" where it throws.
sdVersionOf(developmentKit) ==
    CASE developmentKit \in {0, 1} -> "v2"
      [] developmentKit = 2 -> "v3"
      [] developmentKit = 3 -> "v3"
      [] OTHER -> ""

\* The outcome of _parseAndCreateAdapter when it throws e.
Thrown(got, e) ==
    [threw |-> e, ret |-> NoHandle, emitted |-> got.emitted, constructed |-> 0]

\* "selectedDriver = this._bleDrivers[sdVersion]" to the return, or the throw
\* of the default case.
Selected(adapter, ref, got, sdVersion) ==
    IF sdVersion = "" THEN Thrown(got, UnsupportedHardware)
    ELSE [threw |-> NoThrow,
          ret |-> Adapter(ref, sdVersion, got.ret,
                          adapter.comName, adapter.serialNumber),
          emitted |-> got.emitted,
          constructed |-> 1]

\* _parseAndCreateAdapter from the test of the pattern on, got being what
\* _getInstanceId gave.
Parsed(adapter, ref, got) ==
    IF seggerSerialNumber_test(got.ret)
    THEN Selected(adapter, ref, got,
                  sdVersionOf(ParseInt(seggerSerialNumber_exec(got.ret)[2])))
    ELSE Thrown(got, UnknownAdapterVendor)

\* _parseAndCreateAdapter(adapter), the new object taking identity ref:
\* the error thrown (NoThrow if none), the Adapter returned, the events
\* emitted, and the number of driver objects constructed.
_parseAndCreateAdapter(adapter, ref) == Parsed(adapter, ref, _getInstanceId(adapter))

---------------------------------------------------------------------------
(* The callback _updateAdapterList hands to the driver's getAdapters *)

\* Survives with the test left out: nothing is taken off removedAdapters.
Survives_never(obj, adapterInstanceId) == FALSE

\* if (this._adapters[adapterInstanceId])
Survives(obj, adapterInstanceId) == PropertyKey(adapterInstanceId) \in DOMAIN obj

\* IsAbsent with the test left out: every Adapter created is stored.
IsAbsent_always(obj, adapterInstanceId) == TRUE

\* if (this._adapters[adapterInstanceId] === undefined)
IsAbsent(obj, adapterInstanceId) == PropertyKey(adapterInstanceId) \notin DOMAIN obj

\* The state of one run of the callback: the mapping, the keys left in
\* removedAdapters, the listeners, the events emitted so far, the error that
\* ended the run (NoThrow while it runs), the objects constructed.
LoopState(obj, ls) ==
    [adapters |-> obj, removedAdapters |-> DOMAIN obj, listeners |-> ls,
     emitted |-> << >>, threw |-> NoThrow, constructed |-> 0]

\* Inserted with "added" emitted first, before the Adapter is stored and
\* the listeners are set up.
Inserted_announcedFirst(st, newAdapter, obj2, ls2) ==
    [st EXCEPT !.adapters = obj2,
               !.listeners = ls2,
               !.emitted = Append(@, Event("added", newAdapter, "",
                                           Keyed(st.adapters, newAdapter),
                                           Held(st.adapters, newAdapter),
                                           Wired(st.listeners, newAdapter)))]

\* this._adapters[adapterInstanceId] = newAdapter; the listeners; emit added.
Inserted(st, newAdapter, obj2, ls2) ==
    [st EXCEPT !.adapters = obj2,
               !.listeners = ls2,
               !.emitted = Append(@, Event("added", newAdapter, "",
                                           Keyed(obj2, newAdapter),
                                           Held(obj2, newAdapter),
                                           Wired(ls2, newAdapter)))]

\* Stored with the listeners set up again on the Adapter the mapping has.
Stored_resubscribes(st, id, made) ==
    IF made.threw # NoThrow THEN [st EXCEPT !.threw = made.threw]
    ELSE IF IsAbsent(st.adapters, id)
    THEN Inserted(st, made.ret,
                  SetProperty(st.adapters, PropertyKey(id), made.ret),
                  _setUpListenersForAdapterOpenAndClose(st.listeners, made.ret))
    ELSE [st EXCEPT !.listeners =
                        _setUpListenersForAdapterOpenAndClose(
                            @, st.adapters[PropertyKey(id)])]

\* The body of the loop after _parseAndCreateAdapter gave made.
Stored(st, id, made) ==
    IF made.threw # NoThrow THEN [st EXCEPT !.threw = made.threw]
    ELSE IF IsAbsent(st.adapters, id)
    THEN Inserted(st, made.ret,
                  SetProperty(st.adapters, PropertyKey(id), made.ret),
                  _setUpListenersForAdapterOpenAndClose(st.listeners, made.ret))
    ELSE st

\* The body of the loop up to _parseAndCreateAdapter: the id is taken off
\* removedAdapters if the mapping has it.
Marked(st, got, made) ==
    [st EXCEPT !.removedAdapters =
                   IF Survives(st.adapters, got.ret)
                   THEN @ \ {PropertyKey(got.ret)} ELSE @,
               !.emitted = @ \o got.emitted \o made.emitted,
               !.constructed = @ + made.constructed]

Looped(st, got, made) == Stored(Marked(st, got, made), got.ret, made)

\* The body of "for (let adapter of adapters)".
LoopBody(st, adapter) ==
    Looped(st, _getInstanceId(adapter),
           _parseAndCreateAdapter(adapter, NextRef(st.listeners)))

RECURSIVE ForOf(_, _, _)
ForOf(st, adapters, i) ==
    IF i > Len(adapters) \/ st.threw # NoThrow THEN st
    ELSE ForOf(LoopBody(st, adapters[i]), adapters, i + 1)

\* Removed with the emit left out: the handle leaves the mapping unannounced.
Removed_notAnnounced(st, removedAdapter, ls2, obj2) ==
    [st EXCEPT !.listeners = ls2, !.adapters = obj2]

\* delete this._adapters[adapterId]; emit removed.
Removed(st, removedAdapter, ls2, obj2) ==
    [st EXCEPT !.listeners = ls2,
               !.adapters = obj2,
               !.emitted = Append(@, Event("removed", removedAdapter, "",
                                           Keyed(obj2, removedAdapter),
                                           Held(obj2, removedAdapter),
                                           Wired(ls2, removedAdapter)))]

\* The listeners after removedAdapter.removeAllListeners('opened').
Detached(ls, removedAdapter) == removeAllListeners(ls, removedAdapter, "opened")

\* The body of "for (let adapterId in removedAdapters)".
RemoveBody(st, adapterId) ==
    Removed(st, st.adapters[adapterId],
            Detached(st.listeners, st.adapters[adapterId]),
            DeleteProperty(st.adapters, adapterId))

RECURSIVE ForIn(_, _, _)
ForIn(st, ids, i) ==
    IF i > Len(ids) THEN st
    ELSE ForIn(RemoveBody(st, ids[i]), ids, i + 1)

\* A call of a callback the caller of getAdapters supplied.
Call(err, given, obj) ==
    [err |-> err, given |-> given, adapters |-> IF given THEN obj ELSE EmptyObject]

NotAFunction == "TypeError: callback is not a function"

\* The arrow function getAdapters hands to _updateAdapterList, called with
\* (error) or with (undefined, adapters): the calls of the user's callback it
\* makes and the error it throws.  userCallback: the user's callback is a
\* function.
getAdapters_wrapper(userCallback, error, given, obj) ==
    IF error # NoError
    THEN IF userCallback
         THEN [calls |-> <<Call(error, FALSE, obj)>>, threw |-> NoThrow]
         ELSE [calls |-> << >>, threw |-> NotAFunction]
    ELSE IF userCallback
         THEN [calls |-> <<Call(NoError, given, obj)>>, threw |-> NoThrow]
         ELSE [calls |-> << >>, threw |-> NoThrow]

\* "if (callback && (typeof callback === 'function')) callback(...)" in
\* _updateAdapterList.  The timer passes no callback; getAdapters passes its
\* arrow function.
InvokeCallback(req, error, given, obj) ==
    IF req.viaGetAdapters
    THEN getAdapters_wrapper(req.userCallback, error, given, obj)
    ELSE [calls |-> << >>, threw |-> NoThrow]

\* What a run of the callback leaves behind: st with the calls made of the
\* user's callback and the error that ended the run.
Outcome(st, calls, threw) ==
    [adapters |-> st.adapters, listeners |-> st.listeners,
     emitted |-> st.emitted, calls |-> calls, threw |-> threw,
     constructed |-> st.constructed]

Called(st, cb) == Outcome(st, cb.calls, cb.threw)

\* The error branch with the call of the callback left out.
EnumerationFailed_noCallback(obj, ls, req, err) ==
    Outcome([LoopState(obj, ls) EXCEPT !.emitted = <<ErrorEvent(err)>>],
            << >>, NoThrow)

\* "if (err) { this.emit('error', err); callback(err); return; }"
EnumerationFailed(obj, ls, req, err) ==
    Called([LoopState(obj, ls) EXCEPT !.emitted = <<ErrorEvent(err)>>],
           InvokeCallback(req, err, FALSE, obj))

\* The second loop and the final callback(undefined, this._adapters).
Finished(req, done) ==
    Called(done, InvokeCallback(req, NoError, TRUE, done.adapters))

\* After the first loop: an error thrown in it has ended the callback.
AfterForOf(obj, req, looped) ==
    IF looped.threw # NoThrow THEN Outcome(looped, << >>, looped.threw)
    ELSE Finished(req, ForIn(looped, ForInOrder(obj, looped.removedAdapters), 1))

\* The whole callback, run on mapping obj and listeners ls for request req
\* with the driver's result: what it leaves behind.
EnumerationCallback(obj, ls, req, result) ==
    IF result.err # NoError THEN EnumerationFailed(obj, ls, req, result.err)
    ELSE AfterForOf(obj, req, ForOf(LoopState(obj, ls), result.adapters, 1))

---------------------------------------------------------------------------
(* State *)

VARIABLES
    singleton,   \* AdapterFactory[_singleton]: << >>, or <<the instance>>
    timers,      \* the interval timers setInterval has created
    adapters,    \* this._adapters of the instance
    listeners,   \* the listeners on every Adapter object that was ever kept
    inflight,    \* the calls of the driver's getAdapters not yet called back
    live,        \* the handles announced by "added" and not yet by "removed"
    last         \* the task the event loop has just run, and what came of it:
                 \* Idle once the loop has moved on

vars == <<singleton, timers, adapters, listeners, inflight, live, last>>

Request(viaGetAdapters, userCallback) ==
    [viaGetAdapters |-> viaGetAdapters, userCallback |-> userCallback]

\* The timer's call, getAdapters(function) and getAdapters(no function).
Requests == {Request(FALSE, FALSE), Request(TRUE, TRUE), Request(TRUE, FALSE)}

NoRequest == Request(FALSE, FALSE)
NoResult  == [err |-> NoError, adapters |-> << >>]

\* A step that is no run of the enumeration callback.  bleDrivers and
\* returned are the argument and the value returned of a call of getInstance.
Step(op, handle, event, threw, emitted) ==
    [op |-> op, handle |-> handle, event |-> event,
     req |-> NoRequest, result |-> NoResult, again |-> FALSE,
     threw |-> threw, emitted |-> emitted, calls |-> << >>, constructed |-> 0,
     bleDrivers |-> "", returned |-> << >>]

Idle == Step("idle", NoHandle, "", NoThrow, << >>)

\* A run of the enumeration callback for req with the driver's result; again:
\* it ran straight after a run with the same result.
Pass(req, result, again, out) ==
    [op |-> "deliver", handle |-> NoHandle, event |-> "",
     req |-> req, result |-> result, again |-> again,
     threw |-> out.threw, emitted |-> out.emitted, calls |-> out.calls,
     constructed |-> out.constructed,
     bleDrivers |-> "", returned |-> << >>]

\* The set of live handles after the events of one step.
RECURSIVE Announce(_, _, _)
Announce(set, emitted, i) ==
    IF i > Len(emitted) THEN set
    ELSE Announce(
             CASE emitted[i].type = "added" -> set \cup {emitted[i].handle}
               [] emitted[i].type = "removed" -> set \ {emitted[i].handle}
               [] OTHER -> set,
             emitted, i + 1)

\* let _singleton = Symbol(): no caller outside the module holds it.
Tokens == {"undefined", "Symbol()"}
BleDrivers == {"undefined", "injected"}

Init ==
    /\ singleton = << >>
    /\ timers = 0
    /\ adapters = EmptyObject
    /\ listeners = [a \in {} |-> NoListeners]
    /\ inflight = EmptyBag
    /\ live = {}
    /\ last = Idle

---------------------------------------------------------------------------
(* Operations *)

CannotInstantiate == "Cannot instantiate directly."

\* new AdapterFactory(singletonToken, bleDrivers) from outside the module.
Construct(singletonToken, bleDrivers) ==
    /\ last = Idle
    /\ singletonToken \in Tokens
    /\ last' = Step("new", NoHandle, "", CannotInstantiate, << >>)
    /\ UNCHANGED <<singleton, timers, adapters, listeners, inflight, live>>

\* What "new AdapterFactory(_singleton, bleDrivers)" makes: the instance with
\* its registry of drivers and the timer setInterval gave it.
Instance(bleDrivers, updateInterval) ==
    [_bleDrivers |-> IF bleDrivers = "undefined" THEN "_bleDrivers" ELSE bleDrivers,
     updateInterval |-> updateInterval]

\* The call of getInstance and what it returned.
Got(bleDrivers, returned) ==
    [Step("getInstance", NoHandle, "", NoThrow, << >>)
        EXCEPT !.bleDrivers = bleDrivers, !.returned = returned]

\* getInstance with the test of this[_singleton] left out.
getInstance_always(bleDrivers) ==
    /\ last = Idle
    /\ singleton' = <<Instance(bleDrivers, timers + 1)>>
    /\ adapters' = EmptyObject
    /\ timers' = timers + 1
    /\ last' = Got(bleDrivers, singleton')
    /\ UNCHANGED <<listeners, inflight, live>>

\* AdapterFactory.getInstance(bleDrivers)
getInstance(bleDrivers) ==
    /\ last = Idle
    /\ IF singleton = << >>
       THEN /\ singleton' = <<Instance(bleDrivers, timers + 1)>>
            /\ adapters' = EmptyObject
            /\ timers' = timers + 1
       ELSE UNCHANGED <<singleton, adapters, timers>>
    /\ last' = Got(bleDrivers, singleton')
    /\ UNCHANGED <<listeners, inflight, live>>

\* _updateAdapterList(callback): the call of this._bleDrivers.v2.getAdapters.
_updateAdapterList(req) ==
    /\ BagCardinality(inflight) < MaxInflight
    /\ inflight' = inflight (+) SetToBag({req})

\* The interval timer fires: this._updateAdapterList().
TimerTick ==
    /\ last = Idle
    /\ timers > 0
    /\ _updateAdapterList(Request(FALSE, FALSE))
    /\ last' = Step("tick", NoHandle, "", NoThrow, << >>)
    /\ UNCHANGED <<singleton, timers, adapters, listeners, live>>

\* getAdapters(callback); userCallback: callback is a function.
getAdapters(userCallback) ==
    /\ last = Idle
    /\ singleton # << >>
    /\ _updateAdapterList(Request(TRUE, userCallback))
    /\ last' = Step("getAdapters", NoHandle, "", NoThrow, << >>)
    /\ UNCHANGED <<singleton, timers, adapters, listeners, live>>

\* The effect of a run of the callback that left out.
Ran(req, result, out) ==
    /\ Cardinality(DOMAIN out.listeners) <= MaxHandles
    /\ adapters' = out.adapters
    /\ listeners' = out.listeners
    /\ live' = Announce(live, out.emitted, 1)
    /\ last' = Pass(req, result, last.op = "deliver", out)

\* The driver calls back a pending enumeration, the one of req, with result.
\* Pending enumerations complete in any order.  The loop may run the callback
\* of a second enumeration straight after that of a first one when the driver
\* reports the same result again.
Deliver(req, result) ==
    /\ last = Idle \/ (last.op = "deliver" /\ result = last.result)
    /\ BagIn(req, inflight)
    /\ Ran(req, result, EnumerationCallback(adapters, listeners, req, result))
    /\ inflight' = inflight (-) SetToBag({req})
    /\ UNCHANGED <<singleton, timers>>

\* What the engine's listeners emit when adapter raises event.
RECURSIVE Relay(_, _, _, _)
Relay(ls, adapter, event, i) ==
    IF i > Len(ls[adapter][event]) THEN << >>
    ELSE (IF ls[adapter][event][i] = "engine"
          THEN <<Event(IF event = "opened" THEN "adapterOpened"
                       ELSE "adapterClosed",
                       adapter, "", Keyed(adapters, adapter),
                       Held(adapters, adapter), Wired(ls, adapter))>>
          ELSE << >>) \o Relay(ls, adapter, event, i + 1)

\* An Adapter object the engine has handed out raises "opened" or "closed".
Notify(adapter, event) ==
    /\ last = Idle
    /\ adapter \in DOMAIN listeners
    /\ last' = Step("notify", adapter, event, NoThrow,
                    Relay(listeners, adapter, event, 1))
    /\ UNCHANGED <<singleton, timers, adapters, listeners, inflight, live>>

\* The task returns and the event loop takes the next one.
Return ==
    /\ last # Idle
    /\ last' = Idle
    /\ UNCHANGED <<singleton, timers, adapters, listeners, inflight, live>>

Next ==
    \/ \E t \in Tokens, b \in BleDrivers : Construct(t, b)
    \/ \E b \in BleDrivers : getInstance(b)
    \/ TimerTick
    \/ \E u \in BOOLEAN : getAdapters(u)
    \/ \E q \in Requests, r \in Results : Deliver(q, r)
    \/ \E a \in DOMAIN listeners, e \in {"opened", "closed"} : Notify(a, e)
    \/ Return

Spec == Init /\ [][Next]_vars

---------------------------------------------------------------------------
(* The classifier on its own: _parseAndCreateAdapter on one descriptor *)

Prefixes  == {<< >>, <<"C", "O", "M">>, <<"1">>, <<"\n">>}
Marks     == {<<"6", "8">>, <<"8", "6">>, <<"6", "9">>}
KitDigits == {"0", "1", "2", "3", "4", "9", "A"}
Tails     == {<<"1", "2", "3", "4", "5", "6">>, <<"1", "2", "3", "4", "5">>,
              <<"1", "2", "3", "4", "5", "6", "7">>,
              <<"1", "2", "B", "4", "5", "6">>}

ClassifierIds ==
    {p \o m \o <<k>> \o t : p \in Prefixes, m \in Marks, k \in KitDigits, t \in Tails}

\* Descriptors with the id as serial number, as port name beside no or an
\* empty serial number, and with neither.
ClassifierInputs ==
    {Descriptor(id, Undefined) : id \in ClassifierIds}
        \cup {Descriptor(id, Com3) : id \in ClassifierIds}
        \cup {Descriptor(Undefined, id) : id \in ClassifierIds}
        \cup {Descriptor(<< >>, id) : id \in ClassifierIds}
        \cup {Descriptor(Undefined, Undefined), Descriptor(<< >>, << >>)}

InitClassify ==
    /\ singleton = << >>
    /\ timers = 0
    /\ adapters = EmptyObject
    /\ listeners = [a \in {} |-> NoListeners]
    /\ inflight = EmptyBag
    /\ live = {}
    /\ \E d \in ClassifierInputs :
           last = [Idle EXCEPT !.op = "input",
                               !.result = [err |-> NoError, adapters |-> <<d>>]]

Classification(input, made) ==
    [input EXCEPT !.op = "classify", !.handle = made.ret,
                  !.threw = made.threw, !.emitted = made.emitted,
                  !.constructed = made.constructed]

\* _parseAndCreateAdapter(adapter) on the descriptor drawn.
Classify ==
    /\ last.op = "input"
    /\ last' = Classification(last, _parseAndCreateAdapter(last.result.adapters[1], 1))
    /\ UNCHANGED <<singleton, timers, adapters, listeners, inflight, live>>

NextClassify == Classify

SpecClassify == InitClassify /\ [][NextClassify]_vars

---------------------------------------------------------------------------
(* The engine beside a consumer that listens to the Adapter objects itself *)

\* The listeners of seq that are x.
Count(seq, x) == Cardinality({j \in 1..Len(seq) : seq[j] = x})

\* A consumer calls adapter.on(event, listener) on an Adapter the engine has
\* handed out, with "added" or in the mapping getAdapters gives.
UserOn(adapter, event) ==
    /\ last = Idle
    /\ adapter \in DOMAIN listeners
    /\ Count(listeners[adapter][event], "user") < MaxUserListeners
    /\ listeners' = On(listeners, adapter, event, "user")
    /\ last' = Step("on", adapter, event, NoThrow, << >>)
    /\ UNCHANGED <<singleton, timers, adapters, inflight, live>>

\* The devices the enumerations of SpecUser report: the valid ones.
UserResults ==
    {[err |-> NoError, adapters |-> l] : l \in ListsUpTo({dA, dB}, MaxLen)}

NextUser ==
    \/ \E b \in BleDrivers : getInstance(b)
    \/ TimerTick
    \/ \E r \in UserResults : Deliver(Request(FALSE, FALSE), r)
    \/ \E a \in DOMAIN listeners, e \in {"opened", "closed"} : UserOn(a, e)
    \/ Return

SpecUser == Init /\ [][NextUser]_vars

---------------------------------------------------------------------------
(* Properties *)

CountType(emitted, type) ==
    Cardinality({j \in 1..Len(emitted) : emitted[j].type = type})

HasError(emitted, error) ==
    \E j \in 1..Len(emitted) :
        emitted[j].type = "error" /\ emitted[j].error = error

Elements(seq) == {seq[j] : j \in 1..Len(seq)}

\* A run of the enumeration callback on a list of devices has just ended.
Reconciled == last.op = "deliver" /\ last.result.err = NoError

\* The descriptor gets no instance id, or its instance id no driver.
Fails(d) == _parseAndCreateAdapter(d, 0).threw # NoThrow

\* The keys of the descriptors of a list that are identified and classified.
ValidKeys(list) ==
    {PropertyKey(_getInstanceId(d).ret) : d \in {x \in Elements(list) : ~Fails(x)}}

\* C1: for every instance id at most one handle has been announced by "added"
\* and not yet by "removed", and it is the handle the mapping holds under
\* that id.
C1_Uniqueness ==
    /\ \A h \in live : Held(adapters, h)
    /\ \A h1, h2 \in live : h1.instanceId = h2.instanceId => h1 = h2

\* A run on a list naming a registered device twice has ended while another
\* enumeration is in flight.
C1_Witness ==
    /\ Reconciled
    /\ Len(last.result.adapters) = 2
    /\ last.result.adapters[1] = last.result.adapters[2]
    /\ live # {}
    /\ BagCardinality(inflight) >= 1

\* C2: after a reconciliation with the list D2, the keys of the mapping are
\* the instance ids of the identified and classified descriptors of D2,
\* whatever the mapping was before.
C2_KeysAreValidIdsOfLast ==
    Reconciled => DOMAIN adapters = ValidKeys(last.result.adapters)

\* C3: a reconciliation with the list the reconciliation before it had emits
\* no "added" and no "removed" and leaves the mapping as it was.
C3_Idempotent ==
    [][(last'.op = "deliver" /\ last'.again /\ last'.result.err = NoError)
          => /\ CountType(last'.emitted, "added") = 0
             /\ CountType(last'.emitted, "removed") = 0
             /\ adapters' = adapters]_vars

\* The second of two runs on the same list, the first of which added a device.
C3_Witness ==
    /\ Reconciled
    /\ last.again
    /\ last.result.adapters # << >>
    /\ adapters # EmptyObject

\* C4: a reconciliation whose list holds a failing descriptor still inserts
\* every valid device of the list and removes every registered device the
\* list does not name, and the pass runs to its end.
C4_FailureDoesNotAbort ==
    (Reconciled /\ \E d \in Elements(last.result.adapters) : Fails(d))
        => /\ last.threw = NoThrow
           /\ ValidKeys(last.result.adapters) \subseteq DOMAIN adapters
           /\ \A k \in DOMAIN adapters :
                  \E d \in Elements(last.result.adapters) :
                      k = PropertyKey(_getInstanceId(d).ret)

\* C5: when the enumeration reports an error, the run leaves the mapping and
\* the listeners as they were, emits the one event "error" carrying the
\* error, and calls the callback given to getAdapters once, with the error
\* and no mapping.
C5_EnumerationError ==
    [][(last'.op = "deliver" /\ last'.result.err # NoError)
          => /\ adapters' = adapters
             /\ listeners' = listeners
             /\ last'.emitted = <<ErrorEvent(last'.result.err)>>
             /\ (last'.req.viaGetAdapters /\ last'.req.userCallback)
                    => last'.calls = <<Call(last'.result.err, FALSE, EmptyObject)>>
             /\ ~(last'.req.viaGetAdapters /\ last'.req.userCallback)
                    => last'.calls = << >>]_vars

\* A failed enumeration of getAdapters(callback) with a device registered.
C5_Witness ==
    /\ last.op = "deliver"
    /\ last.result.err = DriverError
    /\ last.req = Request(TRUE, TRUE)
    /\ Len(last.calls) = 1
    /\ adapters # EmptyObject

\* C6: the callback given to getAdapters is called exactly once when the
\* enumeration is called back, with the error or with the mapping as it then
\* is.
C6_CallbackExactlyOnce ==
    (last.op = "deliver" /\ last.req = Request(TRUE, TRUE))
        => /\ Len(last.calls) = 1
           /\ \/ last.calls[1].err # NoError /\ ~last.calls[1].given
              \/ /\ last.calls[1].err = NoError
                 /\ last.calls[1].given
                 /\ last.calls[1].adapters = adapters

\* C7: a handle that a reconciliation has taken out of the mapping raises
\* "opened" or "closed" and no event reaches the engine's stream.
C7_RemovedHandleIsSilent ==
    (last.op = "notify" /\ ~Held(adapters, last.handle)) => last.emitted = << >>

\* C8: at most one enumeration is in flight at any time.
C8_Serialized == BagCardinality(inflight) <= 1

\* The instance id of a descriptor comes from its port name.
FromPortName(d) == ~Truthy(d.serialNumber) /\ Truthy(d.comName)

\* The digit after "68" of an id that ends in "68", one of 0-3 and six digits,
\* after a prefix without line terminators; "" for any other id.
KitDigit(id) ==
    IF /\ id # Undefined
       /\ Len(id) >= 9
       /\ id[Len(id) - 8] = "6"
       /\ id[Len(id) - 7] = "8"
       /\ id[Len(id) - 6] \in {"0", "1", "2", "3"}
       /\ \A j \in (Len(id) - 5)..Len(id) : id[j] \in Digits
       /\ \A j \in 1..(Len(id) - 9) : id[j] \notin {"\n", "\r"}
    THEN id[Len(id) - 6]
    ELSE ""

\* The driver the table gives an id: "" where classification fails.
Generation(id) ==
    CASE KitDigit(id) \in {"0", "1"} -> "v2"
      [] KitDigit(id) \in {"2", "3"} -> "v3"
      [] OTHER -> ""

Classified == last.op = "classify"

ClassifiedId == _getInstanceId(last.result.adapters[1]).ret

\* The outcome of the classification is the one the table gives the id.
FollowsTable ==
    IF Generation(ClassifiedId) = ""
    THEN last.threw # NoThrow /\ last.handle = NoHandle /\ last.constructed = 0
    ELSE /\ last.threw = NoThrow
         /\ last.handle.driver = Generation(ClassifiedId)
         /\ last.handle.instanceId = ClassifiedId
         /\ last.constructed = 1

\* C9, as amended: an id that matches the pattern resolves to "v2" for the
\* digits 0 and 1 and to "v3" for the digits 2 and 3, any other id fails and
\* yields no handle, and an id taken from the port name is classified by the
\* same rule.
C9_ClassificationTable == Classified => FollowsTable

\* An id taken from the port name has resolved to a generation.
C9_Witness ==
    /\ Classified
    /\ FromPortName(last.result.adapters[1])
    /\ last.handle.driver = "v2"

\* C9, as stated: the table, and every id taken from the port name fails.
C9_PortNameNeverClassified ==
    Classified
        => /\ FollowsTable
           /\ FromPortName(last.result.adapters[1]) => last.threw # NoThrow

\* C10: a reconciliation whose list holds a descriptor with neither serial
\* number nor port name emits the error of the missing instance id, and
\* neither creates a handle for it nor puts a key for it into the mapping.
C10_MissingInstanceId ==
    (Reconciled /\ dN \in Elements(last.result.adapters))
        => /\ HasError(last.emitted, MissingInstanceId)
           /\ PropertyKey(Undefined) \notin DOMAIN adapters
           /\ \A h \in DOMAIN listeners : h.instanceId # Undefined

\* The handles a mapping holds.
Handles(obj) == {obj[k] : k \in DOMAIN obj}

\* The events of one type that carry the handle h.
CountOf(emitted, type, h) ==
    Cardinality({j \in 1..Len(emitted) :
                     emitted[j].type = type /\ emitted[j].handle = h})

\* C11: in every step, a handle that enters the mapping is the payload of
\* exactly one "added", a handle that leaves it is the payload of exactly one
\* "removed" and is a handle "added" announced before, and no other handle is
\* the payload of an "added" or a "removed".
C11_AnnouncedExactlyOnce ==
    [][\A h \in Handles(adapters) \cup Handles(adapters')
              \cup {last'.emitted[j].handle : j \in 1..Len(last'.emitted)} :
           /\ CountOf(last'.emitted, "added", h)
                  = IF h \in Handles(adapters') \ Handles(adapters) THEN 1 ELSE 0
           /\ CountOf(last'.emitted, "removed", h)
                  = IF h \in Handles(adapters) \ Handles(adapters') THEN 1 ELSE 0
           /\ h \in Handles(adapters) \ Handles(adapters') => h \in live]_vars

\* A run on the empty list has removed the one handle of generation A that an
\* earlier run added.
C11_Witness ==
    /\ Reconciled
    /\ last.result.adapters = << >>
    /\ CountType(last.emitted, "removed") = 1
    /\ last.emitted[1].handle.driver = "v2"
    /\ last.emitted[1].handle.instanceId = SerialA
    /\ adapters = EmptyObject
    /\ live = {}

\* C12: a run on a list holding a descriptor whose classification fails ends
\* without an exception, has emitted "error" with the failure of that
\* descriptor, and has emitted no "added" and no "removed" for its id.
C12_FailureIsAnErrorEvent ==
    Reconciled
        => \A d \in Elements(last.result.adapters) :
               Fails(d)
                   => /\ last.threw = NoThrow
                      /\ HasError(last.emitted, _parseAndCreateAdapter(d, 0).threw)
                      /\ \A j \in 1..Len(last.emitted) :
                             last.emitted[j].type \in {"added", "removed"}
                                 => last.emitted[j].handle.instanceId
                                        # _getInstanceId(d).ret

\* C13: there is at most one instance, with one timer; a call of getInstance
\* returns the instance, which is the one there was if there was one, whatever
\* the argument, and then makes no timer and no mapping; a direct
\* construction throws and changes nothing.
C13_SingleEngine ==
    [][/\ Len(singleton') <= 1
       /\ timers' = Len(singleton')
       /\ singleton # << >> => singleton' = singleton
       /\ last'.op = "getInstance"
              => /\ Len(last'.returned) = 1
                 /\ last'.returned = singleton'
                 /\ singleton # << >>
                        => last'.returned = singleton /\ adapters' = adapters
       /\ last'.op = "new"
              => /\ last'.threw = CannotInstantiate
                 /\ UNCHANGED <<singleton, timers, adapters, listeners,
                                inflight, live>>]_vars

\* getInstance called with a registry has returned the instance made earlier
\* without one, which has a device registered.
C13_Witness ==
    /\ last.op = "getInstance"
    /\ last.bleDrivers = "injected"
    /\ last.returned = <<Instance("undefined", 1)>>
    /\ timers = 1
    /\ adapters # EmptyObject

\* A run of the enumeration callback that failed: the enumeration reported an
\* error, or a descriptor's classification threw.
FailedCycle(step) ==
    step.op = "deliver" /\ (step.result.err # NoError \/ step.threw # NoThrow)

\* C14: when the run that follows a failed run gets a list of devices, the
\* timer still exists and the keys of the mapping after it are the instance
\* ids of the identified and classified descriptors of that list.
C14_NextCycleReconciles ==
    [][(FailedCycle(last) /\ last'.op = "deliver" /\ last'.result.err = NoError)
          => /\ timers' > 0
             /\ DOMAIN adapters' = ValidKeys(last'.result.adapters)]_vars

\* The id has the form of a Segger serial number, "68", a digit and six
\* digits at its end after a prefix without line terminators, and the digit
\* after "68" is none of 0-3.
OtherRevision(id) ==
    /\ id # Undefined
    /\ Len(id) >= 9
    /\ id[Len(id) - 8] = "6"
    /\ id[Len(id) - 7] = "8"
    /\ id[Len(id) - 6] \in Digits \ {"0", "1", "2", "3"}
    /\ \A j \in (Len(id) - 5)..Len(id) : id[j] \in Digits
    /\ \A j \in 1..(Len(id) - 9) : id[j] \notin {"\n", "\r"}

\* C15: the classification of an id of the Segger form whose digit after "68"
\* is none of 0-3 throws UnsupportedHardware, and that of any other id the
\* table gives no driver throws UnknownAdapterVendor.
C15_UnsupportedHardware ==
    Classified
        => IF OtherRevision(ClassifiedId)
           THEN last.threw = UnsupportedHardware
           ELSE Generation(ClassifiedId) = "" => last.threw = UnknownAdapterVendor

\* C16: a run of the enumeration callback constructs a handle only for a
\* device it adds, none for a descriptor whose id the mapping already has,
\* and every id that stays in the mapping keeps the handle it had.
C16_SurvivorNotRecreated ==
    [][last'.op = "deliver"
          => /\ last'.constructed = CountType(last'.emitted, "added")
             /\ \A k \in DOMAIN adapters \cap DOMAIN adapters' :
                    adapters'[k] = adapters[k]]_vars

\* The one event the engine emits when handle raises event.
Relayed(handle, event) ==
    Event(IF event = "opened" THEN "adapterOpened" ELSE "adapterClosed",
          handle, "", TRUE, TRUE, TRUE)

\* C17: when a handle the mapping holds raises "opened" or "closed", the
\* engine emits exactly one event, "adapterOpened" or "adapterClosed", with
\* that handle as payload.
C17_RelayedExactlyOnce ==
    (last.op = "notify" /\ Held(adapters, last.handle))
        => last.emitted = <<Relayed(last.handle, last.event)>>

\* The first handle created raises "closed" while the mapping holds it, after
\* a run in which it survived took a handle created later out of the mapping.
C17_Witness ==
    /\ last.op = "notify"
    /\ last.event = "closed"
    /\ last.handle.ref = 1
    /\ Held(adapters, last.handle)
    /\ Len(last.emitted) = 1
    /\ \E h \in DOMAIN listeners : h.ref = 2 /\ ~Held(adapters, h)

\* The instance ids of a set of handles.
IdsOf(handles) == {h.instanceId : h \in handles}

\* The events from the i-th on keep the alternation, ids being the instance
\* ids whose last event so far is "added".
RECURSIVE Alternates(_, _, _)
Alternates(ids, emitted, i) ==
    IF i > Len(emitted) THEN TRUE
    ELSE CASE emitted[i].type = "added" ->
                  /\ emitted[i].handle.instanceId \notin ids
                  /\ Alternates(ids \cup {emitted[i].handle.instanceId},
                                emitted, i + 1)
           [] emitted[i].type = "removed" ->
                  /\ emitted[i].handle.instanceId \in ids
                  /\ Alternates(ids \ {emitted[i].handle.instanceId},
                                emitted, i + 1)
           [] OTHER -> Alternates(ids, emitted, i + 1)

\* C18: the events of every step, taken in the order they are emitted, go on
\* alternating for every instance id: "added" only for an id whose last event
\* was not "added", "removed" only for an id whose last event was "added".
C18_AddedRemovedAlternate ==
    [][Alternates(IdsOf(live), last'.emitted, 1)]_vars

\* A run has added a second handle for an id whose first handle an earlier
\* run removed, while another enumeration is in flight.
C18_Witness ==
    /\ Reconciled
    /\ BagCardinality(inflight) >= 1
    /\ \E j \in 1..Len(last.emitted) :
           /\ last.emitted[j].type = "added"
           /\ last.emitted[j].handle.ref = 2
           /\ \E h \in DOMAIN listeners :
                  /\ h.ref = 1
                  /\ h.instanceId = last.emitted[j].handle.instanceId

\* C19: every "added" was emitted when the mapping held its handle under the
\* handle's instance id and the engine's listeners for "opened" and "closed"
\* were on the handle, and every "removed" when the mapping had no key for
\* its handle's instance id.
C19_EventsMatchMapping ==
    \A j \in 1..Len(last.emitted) :
        /\ last.emitted[j].type = "added"
               => last.emitted[j].held /\ last.emitted[j].wired
        /\ last.emitted[j].type = "removed" => ~last.emitted[j].keyed

\* A run has emitted "removed" for one handle after "added" for another.
C19_Witness ==
    /\ Reconciled
    /\ Len(last.emitted) = 2
    /\ last.emitted[1].type = "added"
    /\ last.emitted[2].type = "removed"

\* C20: a step that takes a handle out of the mapping leaves on it every
\* listener a consumer has put on its "opened" and on its "closed".
C20_OnlyOwnListenersDetached ==
    [][\A h \in Handles(adapters) \ Handles(adapters') :
           \A e \in {"opened", "closed"} :
               Count(listeners'[h][e], "user") = Count(listeners[h][e], "user")]_vars

=============================================================================
